---- MODULE Spec2Model ----
(***************************************************************************)
(* Model of the settings engine of hsr-settings (src/src/main.rs): the     *)
(* GraphicsSettings record, the registry of setting descriptors, the      *)
(* cycling engine, the registry-store adapter (read_settings /            *)
(* write_settings) and the command loop of main.                          *)
(*                                                                         *)
(* Numbers of type f64 are modelled in fixed point: the integer x stands   *)
(* for the float x / FloatUnit, so 1.0 is 10000 and the lookup tolerance   *)
(* 0.001 is 10.                                                            *)
(***************************************************************************)
EXTENDS Integers, Sequences, FiniteSets, TLC

VARIABLES
    store,      \* the registry: [key: does REG_PATH exist, val: NoValue or the blob under REG_VALUE]
    pc,         \* "idle": the process is not running; "run": main's command loop
    lang,       \* App.lang
    settings,   \* App.settings
    existed,    \* the flag read_settings returned to App::new
    cursor,     \* App.cursor (0-based index into App.defs)
    status,     \* App.status, a sequence of text parts (<<>> is the empty string)
    ncycles,    \* number of cycle commands issued so far (bounded by MaxCycles)
    attempts,   \* number of write_settings calls made by the last save command
    saved,      \* history: the record of the last successful write_settings, or NoRecord
    orig,       \* history (CycleSpec): the record the cycle sequence started from
    trail       \* history (CycleSpec): the directions cycled since orig

vars == <<store, pc, lang, settings, existed, cursor, status, ncycles,
          attempts, saved, orig, trail>>

-----------------------------------------------------------------------------
(* Bounds of the model *)

\* cycle commands explored in a chain of sessions
MaxCycles == 1
\* consecutive cycle commands explored on one field in CycleSpec
MaxTrail == 6

-----------------------------------------------------------------------------
(* Localization *)

Langs == {"En", "Ko", "Ja"}

\* The texts are not ASCII; a text is modelled by its language and its
\* field name in L10n.
l10n(l) ==
    [ saved       |-> <<l, "saved">>,
      save_failed |-> <<l, "save_failed">>,
      no_registry |-> <<l, "no_registry">> ]

-----------------------------------------------------------------------------
(* Settings model *)

FloatUnit == 10000

\* the struct's fields in declaration order
FieldOrder ==
    << "fps", "enable_vsync", "render_scale", "resolution_quality",
       "shadow_quality", "light_quality", "character_quality",
       "env_detail_quality", "reflection_quality", "sfx_quality",
       "bloom_quality", "aa_mode", "enable_metal_fxsu",
       "enable_half_res_transparent", "enable_self_shadow", "dlss_quality",
       "particle_trail_smoothness" >>

FieldNames == { FieldOrder[i] : i \in DOMAIN FieldOrder }

FieldType ==
    [ fps |-> "i64", enable_vsync |-> "bool", render_scale |-> "f64",
      resolution_quality |-> "i64", shadow_quality |-> "i64",
      light_quality |-> "i64", character_quality |-> "i64",
      env_detail_quality |-> "i64", reflection_quality |-> "i64",
      sfx_quality |-> "i64", bloom_quality |-> "i64", aa_mode |-> "i64",
      enable_metal_fxsu |-> "bool", enable_half_res_transparent |-> "bool",
      enable_self_shadow |-> "i64", dlss_quality |-> "i64",
      particle_trail_smoothness |-> "i64" ]

\* serde: rename_all = "PascalCase", with the explicit renames
ExternalName ==
    [ fps |-> "FPS", enable_vsync |-> "EnableVSync",
      render_scale |-> "RenderScale",
      resolution_quality |-> "ResolutionQuality",
      shadow_quality |-> "ShadowQuality", light_quality |-> "LightQuality",
      character_quality |-> "CharacterQuality",
      env_detail_quality |-> "EnvDetailQuality",
      reflection_quality |-> "ReflectionQuality",
      sfx_quality |-> "SFXQuality", bloom_quality |-> "BloomQuality",
      aa_mode |-> "AAMode", enable_metal_fxsu |-> "EnableMetalFXSU",
      enable_half_res_transparent |-> "EnableHalfResTransparent",
      enable_self_shadow |-> "EnableSelfShadow",
      dlss_quality |-> "DlssQuality",
      particle_trail_smoothness |-> "ParticleTrailSmoothness" ]

\* impl Default for GraphicsSettings
DefaultSettings ==
    [ fps |-> 60, enable_vsync |-> TRUE, render_scale |-> FloatUnit,
      resolution_quality |-> 3, shadow_quality |-> 3, light_quality |-> 3,
      character_quality |-> 3, env_detail_quality |-> 3,
      reflection_quality |-> 3, sfx_quality |-> 3, bloom_quality |-> 3,
      aa_mode |-> 1, enable_metal_fxsu |-> FALSE,
      enable_half_res_transparent |-> FALSE, enable_self_shadow |-> 1,
      dlss_quality |-> 0, particle_trail_smoothness |-> 3 ]

-----------------------------------------------------------------------------
(* The serialized record: JSON text                                        *)
(*                                                                         *)
(* A text is [kind, members, nuls]: kind "object" is a syntactically valid *)
(* JSON object whose members are <<name, value>> pairs in text order, kind *)
(* "garbage" is any text that is not a JSON object; nuls is the number of  *)
(* NUL characters that end the text. A JSON value is [t, v] with t one of  *)
(* "int" (a number without fraction or exponent), "float", "bool", "str".  *)

JInt(n) == [t |-> "int", v |-> n]
JFloat(x) == [t |-> "float", v |-> x]
JBool(b) == [t |-> "bool", v |-> b]
JStr(s) == [t |-> "str", v |-> s]

\* Serialize for one field: i64 prints as an integer, f64 always with a
\* fraction ("1.0"), bool as true / false
SerializeValue(type, v) ==
    CASE type = "i64"  -> JInt(v)
      [] type = "f64"  -> JFloat(v)
      [] type = "bool" -> JBool(v)

\* does the JSON value deserialize as the field type: i64 takes integers
\* only, f64 takes integers and floats, bool takes booleans only
ValueFits(type, j) ==
    CASE type = "i64"  -> j.t = "int"
      [] type = "f64"  -> j.t \in {"int", "float"}
      [] type = "bool" -> j.t = "bool"

\* Deserialize for one field, for a value that fits
DeserializeValue(type, j) ==
    IF type = "f64" /\ j.t = "int" THEN j.v * FloatUnit ELSE j.v

\* serde_json::to_string(settings): every field, in declaration order,
\* under its external name
to_string(s) ==
    [ kind    |-> "object",
      members |-> [ i \in DOMAIN FieldOrder |->
                      << ExternalName[FieldOrder[i]],
                         SerializeValue(FieldType[FieldOrder[i]], s[FieldOrder[i]]) >> ],
      nuls    |-> 0 ]

\* positions of the members of the text that carry the external name of f
MembersOf(text, f) ==
    { i \in DOMAIN text.members : text.members[i][1] = ExternalName[f] }

ParseErr == [ok |-> FALSE]

\* from_str with missing fields filled from the default record, as under
\* #[serde(default)]
from_str_lenient(text) ==
    IF text.kind # "object" \/ text.nuls # 0 THEN ParseErr
    ELSE IF \E f \in FieldNames : Cardinality(MembersOf(text, f)) > 1 THEN ParseErr
    ELSE IF \E f \in FieldNames : \E i \in MembersOf(text, f) :
                ~ValueFits(FieldType[f], text.members[i][2]) THEN ParseErr
    ELSE [ ok  |-> TRUE,
           val |-> [ f \in FieldNames |->
                       IF MembersOf(text, f) = {} THEN DefaultSettings[f]
                       ELSE LET i == CHOOSE i \in MembersOf(text, f) : TRUE
                            IN  DeserializeValue(FieldType[f], text.members[i][2]) ] ]

\* serde_json::from_str::<GraphicsSettings>(text): fails on text that is
\* not one JSON object (characters after it, NUL included, are an error), on
\* a missing field, a duplicate field and a value of the wrong type;
\* members with other names are skipped
from_str(text) ==
    IF text.kind # "object" \/ text.nuls # 0 THEN ParseErr
    ELSE IF \E f \in FieldNames : Cardinality(MembersOf(text, f)) # 1 THEN ParseErr
    ELSE IF \E f \in FieldNames : \E i \in MembersOf(text, f) :
                ~ValueFits(FieldType[f], text.members[i][2]) THEN ParseErr
    ELSE [ ok  |-> TRUE,
           val |-> [ f \in FieldNames |->
                       LET i == CHOOSE i \in MembersOf(text, f) : TRUE
                       IN  DeserializeValue(FieldType[f], text.members[i][2]) ] ]

\* the text passed on with its terminator
trim_end_matches_nul_kept(text) == text

\* str::trim_end_matches('\0')
trim_end_matches_nul(text) == [text EXCEPT !.nuls = 0]

\* String::push('\0')
push_nul(text) == [text EXCEPT !.nuls = @ + 1]

-----------------------------------------------------------------------------
(* Registry I/O *)

NoValue == [kind |-> "absent"]
NoRecord == [none |-> TRUE]

\* read_settings() -> (GraphicsSettings, bool)
read_settings(st) ==
    IF ~st.key THEN <<DefaultSettings, FALSE>>
    ELSE IF st.val = NoValue THEN <<DefaultSettings, FALSE>>
    ELSE LET json == trim_end_matches_nul(st.val)
             r    == from_str(json)
         IN  IF r.ok THEN <<r.val, TRUE>> ELSE <<DefaultSettings, FALSE>>

\* what the registry lets a write do: succeed, or fail in one of its calls
WriteOutcomes == {"ok", "create_subkey", "set_raw_value"}

\* the Display text of the io::Error of a failed call
ErrorText(outcome) == <<"os error", outcome>>

\* write_settings storing the defaults for the two fields that no
\* descriptor edits
write_settings_flags_reset(st, s, outcome) ==
    IF outcome = "create_subkey"
    THEN [ok |-> FALSE, err |-> ErrorText(outcome), store |-> st]
    ELSE LET created == [st EXCEPT !.key = TRUE]
             edited  == [s EXCEPT
                           !.enable_metal_fxsu = DefaultSettings.enable_metal_fxsu,
                           !.enable_half_res_transparent =
                               DefaultSettings.enable_half_res_transparent]
             json    == push_nul(to_string(edited))
         IN  IF outcome = "set_raw_value"
             THEN [ok |-> FALSE, err |-> ErrorText(outcome), store |-> created]
             ELSE [ok |-> TRUE, err |-> <<>>,
                   store |-> [created EXCEPT !.val = json]]

\* write_settings(settings) -> io::Result<()>, as [ok, err, store]: the
\* result and the registry after the call. create_subkey creates REG_PATH
\* before the value is written.
write_settings(st, s, outcome) ==
    IF outcome = "create_subkey"
    THEN [ok |-> FALSE, err |-> ErrorText(outcome), store |-> st]
    ELSE LET created == [st EXCEPT !.key = TRUE]
             json    == push_nul(to_string(s))
         IN  IF outcome = "set_raw_value"
             THEN [ok |-> FALSE, err |-> ErrorText(outcome), store |-> created]
             ELSE [ok |-> TRUE, err |-> <<>>,
                   store |-> [created EXCEPT !.val = json]]

-----------------------------------------------------------------------------
(* Setting descriptors *)

\* (1..=5).map(|i| (i.to_string(), i)): the options are (label, value) pairs
quality == << <<"1", 1>>, <<"2", 2>>, <<"3", 3>>, <<"4", 4>>, <<"5", 5>> >>

\* (6..=20).step_by(2).map(|v| v as f64 / 10.0), labelled with one decimal
render_scales ==
    << <<"0.6", (6 * FloatUnit) \div 10>>,  <<"0.8", (8 * FloatUnit) \div 10>>,
       <<"1.0", (10 * FloatUnit) \div 10>>, <<"1.2", (12 * FloatUnit) \div 10>>,
       <<"1.4", (14 * FloatUnit) \div 10>>, <<"1.6", (16 * FloatUnit) \div 10>>,
       <<"1.8", (18 * FloatUnit) \div 10>>, <<"2.0", (20 * FloatUnit) \div 10>> >>

SelectI64(f, opts) == [field |-> f, kind |-> "SelectI64", opts |-> opts]
SelectF64(f, opts) == [field |-> f, kind |-> "SelectF64", opts |-> opts]
Toggle(f) == [field |-> f, kind |-> "Toggle", opts |-> <<>>]

setting_defs ==
    << SelectI64("Fps", << <<"30", 30>>, <<"60", 60>>, <<"120", 120>> >>),
       Toggle("VSync"),
       SelectF64("RenderScale", render_scales),
       SelectI64("ResolutionQuality", quality),
       SelectI64("ShadowQuality", quality),
       SelectI64("LightQuality", quality),
       SelectI64("CharacterQuality", quality),
       SelectI64("EnvDetailQuality", quality),
       SelectI64("ReflectionQuality", quality),
       SelectI64("SfxQuality", quality),
       SelectI64("BloomQuality", quality),
       SelectI64("AaMode", << <<"Off", 0>>, <<"On", 1>> >>),
       SelectI64("SelfShadow", << <<"Off", 0>>, <<"On", 1>> >>),
       SelectI64("DlssQuality", << <<"Off", 0>> >> \o quality),
       SelectI64("ParticleTrail", quality) >>

\* self.defs[idx], idx counted from 0 as in the code
DefAt(idx) == setting_defs[idx + 1]

-----------------------------------------------------------------------------
(* Field accessors *)

get_i64(s, f) ==
    CASE f = "Fps"               -> s.fps
      [] f = "ResolutionQuality" -> s.resolution_quality
      [] f = "ShadowQuality"     -> s.shadow_quality
      [] f = "LightQuality"      -> s.light_quality
      [] f = "CharacterQuality"  -> s.character_quality
      [] f = "EnvDetailQuality"  -> s.env_detail_quality
      [] f = "ReflectionQuality" -> s.reflection_quality
      [] f = "SfxQuality"        -> s.sfx_quality
      [] f = "BloomQuality"      -> s.bloom_quality
      [] f = "AaMode"            -> s.aa_mode
      [] f = "SelfShadow"        -> s.enable_self_shadow
      [] f = "DlssQuality"       -> s.dlss_quality
      [] f = "ParticleTrail"     -> s.particle_trail_smoothness
      [] OTHER                   -> 0

\* the DlssQuality arm pasted from the SelfShadow arm above it
set_i64_pasted(s, f, v) ==
    CASE f = "Fps"               -> [s EXCEPT !.fps = v]
      [] f = "ResolutionQuality" -> [s EXCEPT !.resolution_quality = v]
      [] f = "ShadowQuality"     -> [s EXCEPT !.shadow_quality = v]
      [] f = "LightQuality"      -> [s EXCEPT !.light_quality = v]
      [] f = "CharacterQuality"  -> [s EXCEPT !.character_quality = v]
      [] f = "EnvDetailQuality"  -> [s EXCEPT !.env_detail_quality = v]
      [] f = "ReflectionQuality" -> [s EXCEPT !.reflection_quality = v]
      [] f = "SfxQuality"        -> [s EXCEPT !.sfx_quality = v]
      [] f = "BloomQuality"      -> [s EXCEPT !.bloom_quality = v]
      [] f = "AaMode"            -> [s EXCEPT !.aa_mode = v]
      [] f = "SelfShadow"        -> [s EXCEPT !.enable_self_shadow = v]
      [] f = "DlssQuality"       -> [s EXCEPT !.enable_self_shadow = v]
      [] f = "ParticleTrail"     -> [s EXCEPT !.particle_trail_smoothness = v]
      [] OTHER                   -> s

set_i64(s, f, v) ==
    CASE f = "Fps"               -> [s EXCEPT !.fps = v]
      [] f = "ResolutionQuality" -> [s EXCEPT !.resolution_quality = v]
      [] f = "ShadowQuality"     -> [s EXCEPT !.shadow_quality = v]
      [] f = "LightQuality"      -> [s EXCEPT !.light_quality = v]
      [] f = "CharacterQuality"  -> [s EXCEPT !.character_quality = v]
      [] f = "EnvDetailQuality"  -> [s EXCEPT !.env_detail_quality = v]
      [] f = "ReflectionQuality" -> [s EXCEPT !.reflection_quality = v]
      [] f = "SfxQuality"        -> [s EXCEPT !.sfx_quality = v]
      [] f = "BloomQuality"      -> [s EXCEPT !.bloom_quality = v]
      [] f = "AaMode"            -> [s EXCEPT !.aa_mode = v]
      [] f = "SelfShadow"        -> [s EXCEPT !.enable_self_shadow = v]
      [] f = "DlssQuality"       -> [s EXCEPT !.dlss_quality = v]
      [] f = "ParticleTrail"     -> [s EXCEPT !.particle_trail_smoothness = v]
      [] OTHER                   -> s

get_f64(s, f) ==
    CASE f = "RenderScale" -> s.render_scale
      [] OTHER             -> 0

set_f64(s, f, v) ==
    CASE f = "RenderScale" -> [s EXCEPT !.render_scale = v]
      [] OTHER             -> s

get_bool(s, f) ==
    CASE f = "VSync" -> s.enable_vsync
      [] OTHER       -> FALSE

set_bool(s, f, v) ==
    CASE f = "VSync" -> [s EXCEPT !.enable_vsync = v]
      [] OTHER       -> s

-----------------------------------------------------------------------------
(* The cycling engine *)

Abs(x) == IF x < 0 THEN -x ELSE x

\* the tolerance 0.001 of the float lookup
Epsilon == FloatUnit \div 1000

\* the remainder of the magnitude: -1 gives 1 instead of n - 1
rem_euclid_abs(a, n) == IF a < 0 THEN (-a) % n ELSE a % n

\* isize::rem_euclid for a positive divisor: the result is in 0 .. n-1
rem_euclid(a, n) == a % n

\* opts.iter().position(|(_, v)| *v == cur).unwrap_or(0), 0-based
position_i64(opts, cur) ==
    LET hits == { i \in DOMAIN opts : opts[i][2] = cur }
    IN  IF hits = {} THEN 0
        ELSE (CHOOSE i \in hits : \A j \in hits : i <= j) - 1

\* opts.iter().position(|(_, v)| (*v - cur).abs() < 0.001).unwrap_or(0)
position_f64(opts, cur) ==
    LET hits == { i \in DOMAIN opts : Abs(opts[i][2] - cur) < Epsilon }
    IN  IF hits = {} THEN 0
        ELSE (CHOOSE i \in hits : \A j \in hits : i <= j) - 1

\* next_index with the ends clamped instead of wrapped
next_index_clamp(pos, delta, opts) ==
    IF pos + delta >= Len(opts) THEN Len(opts) - 1
    ELSE IF pos + delta < 0 THEN 0
    ELSE pos + delta

\* next_index with the sign of delta dropped
next_index_forward(pos, delta, opts) == rem_euclid(pos + Abs(delta), Len(opts))

\* (pos as isize + delta).rem_euclid(opts.len() as isize) as usize
next_index(pos, delta, opts) == rem_euclid(pos + delta, Len(opts))

\* cycle writing the index of the next option instead of its value
cycle_writes_index(s, cur, delta) ==
    LET def   == DefAt(cur)
        field == def.field
    IN  CASE def.kind = "SelectI64" ->
               LET pos  == position_i64(def.opts, get_i64(s, field))
                   next == next_index(pos, delta, def.opts)
               IN  set_i64(s, field, next)
          [] def.kind = "SelectF64" ->
               LET pos  == position_f64(def.opts, get_f64(s, field))
                   next == next_index(pos, delta, def.opts)
               IN  set_f64(s, field, next)
          [] def.kind = "Toggle" ->
               set_bool(s, field, ~get_bool(s, field))

\* cycle with a toggle that follows the direction: on for +1, off for -1
cycle_toggle_directed(s, cur, delta) ==
    LET def   == DefAt(cur)
        field == def.field
    IN  CASE def.kind = "SelectI64" ->
               LET pos  == position_i64(def.opts, get_i64(s, field))
                   next == next_index(pos, delta, def.opts)
               IN  set_i64(s, field, def.opts[next + 1][2])
          [] def.kind = "SelectF64" ->
               LET pos  == position_f64(def.opts, get_f64(s, field))
                   next == next_index(pos, delta, def.opts)
               IN  set_f64(s, field, def.opts[next + 1][2])
          [] def.kind = "Toggle" ->
               set_bool(s, field, delta > 0)

\* App::cycle: the settings after cycling the field at cursor cur by delta
cycle(s, cur, delta) ==
    LET def   == DefAt(cur)
        field == def.field
    IN  CASE def.kind = "SelectI64" ->
               LET pos  == position_i64(def.opts, get_i64(s, field))
                   next == next_index(pos, delta, def.opts)
               IN  set_i64(s, field, def.opts[next + 1][2])
          [] def.kind = "SelectF64" ->
               LET pos  == position_f64(def.opts, get_f64(s, field))
                   next == next_index(pos, delta, def.opts)
               IN  set_f64(s, field, def.opts[next + 1][2])
          [] def.kind = "Toggle" ->
               set_bool(s, field, ~get_bool(s, field))

-----------------------------------------------------------------------------
(* App *)

\* a record with every value that is no option of its field replaced by
\* the default, from descriptor i on
RECURSIVE clamp_from(_, _)
clamp_from(s, i) ==
    IF i > Len(setting_defs) THEN s
    ELSE LET def  == setting_defs[i]
             vals == { def.opts[k][2] : k \in DOMAIN def.opts }
             t    == CASE def.kind = "SelectI64" ->
                            IF get_i64(s, def.field) \in vals THEN s
                            ELSE set_i64(s, def.field, get_i64(DefaultSettings, def.field))
                       [] def.kind = "SelectF64" ->
                            IF get_f64(s, def.field) \in vals THEN s
                            ELSE set_f64(s, def.field, get_f64(DefaultSettings, def.field))
                       [] def.kind = "Toggle" -> s
         IN  clamp_from(t, i + 1)

\* App::new with the loaded values clamped to the domains
App_new_clamped(st, l) ==
    LET r == read_settings(st)
    IN  [ settings |-> clamp_from(r[1], 1),
          existed  |-> r[2],
          cursor   |-> 0,
          status   |-> IF r[2] THEN <<>> ELSE <<l10n(l).no_registry>> ]

\* App::new(lang), as [settings, existed, cursor, status]
App_new(st, l) ==
    LET r == read_settings(st)
    IN  [ settings |-> r[1],
          existed  |-> r[2],
          cursor   |-> 0,
          status   |-> IF r[2] THEN <<>> ELSE <<l10n(l).no_registry>> ]

\* App::save with the result of write_settings dropped
App_save_unchecked(st, s, l, outcome) ==
    LET r == write_settings(st, s, outcome)
    IN  [ store  |-> r.store,
          status |-> <<l10n(l).saved>>,
          ok     |-> r.ok,
          calls  |-> 1 ]

\* App::save, as [store, status, calls]: the registry and the status after
\* the command and the number of write_settings calls it made
App_save(st, s, l, outcome) ==
    LET r == write_settings(st, s, outcome)
    IN  [ store  |-> r.store,
          status |-> IF r.ok THEN <<l10n(l).saved>>
                     ELSE <<l10n(l).save_failed, ": ", r.err>>,
          ok     |-> r.ok,
          calls  |-> 1 ]

\* cursor_up wrapping to the last row
cursor_up_wrap(c) == IF c > 0 THEN c - 1 ELSE Len(setting_defs) - 1

\* KeyCode::Up: if app.cursor > 0 { app.cursor -= 1 }
cursor_up(c) == IF c > 0 THEN c - 1 ELSE c

\* KeyCode::Down: if app.cursor + 1 < app.defs.len() { app.cursor += 1 }
cursor_down(c) == IF c + 1 < Len(setting_defs) THEN c + 1 ELSE c

-----------------------------------------------------------------------------
(* Registry contents a session can find at its start *)

\* a stored record that differs from the default in every field
StoredA ==
    [ fps |-> 120, enable_vsync |-> FALSE, render_scale |-> (14 * FloatUnit) \div 10,
      resolution_quality |-> 1, shadow_quality |-> 2, light_quality |-> 4,
      character_quality |-> 5, env_detail_quality |-> 1,
      reflection_quality |-> 2, sfx_quality |-> 4, bloom_quality |-> 5,
      aa_mode |-> 0, enable_metal_fxsu |-> TRUE,
      enable_half_res_transparent |-> TRUE, enable_self_shadow |-> 0,
      dlss_quality |-> 2, particle_trail_smoothness |-> 5 ]

TextOf(members, nuls) == [kind |-> "object", members |-> members, nuls |-> nuls]

\* the members of to_string(StoredA) with the member at position i replaced
WithMember(i, j) == [to_string(StoredA).members EXCEPT ![i] = <<@[1], j>>]

InitTexts ==
    { \* a complete record between members this program does not know, with
      \* "RenderScale":1 and two terminators
      TextOf(<< <<"Extra", JStr("x")>> >> \o WithMember(3, JInt(1))
                \o << <<"Fps", JInt(30)>> >>, 2),
      \* text that is not JSON
      [kind |-> "garbage", members |-> <<>>, nuls |-> 1],
      \* {"FPS":120}
      TextOf(<< <<"FPS", JInt(120)>> >>, 1),
      \* "FPS":120.0
      TextOf(WithMember(1, JFloat(120 * FloatUnit)), 1),
      \* "FPS" twice
      TextOf(to_string(StoredA).members \o << <<"FPS", JInt(30)>> >>, 1),
      \* values outside the domains: FPS 144 with RenderScale 1.0005 (within
      \* the tolerance of 1.0) and no terminator; ShadowQuality 9 with
      \* RenderScale 1.05
      TextOf([WithMember(1, JInt(144)) EXCEPT ![3] = <<@[1], JFloat(FloatUnit + 5)>>], 0),
      TextOf([WithMember(5, JInt(9)) EXCEPT ![3] = <<@[1], JFloat(FloatUnit + 500)>>], 1) }

InitStores ==
    { [key |-> FALSE, val |-> NoValue], [key |-> TRUE, val |-> NoValue] }
    \cup { [key |-> TRUE, val |-> t] : t \in InitTexts }

-----------------------------------------------------------------------------
(* The program *)

\* the App fields while no process runs (no App exists)
NoApp ==
    /\ lang' = "En"
    /\ settings' = DefaultSettings
    /\ existed' = FALSE
    /\ cursor' = 0
    /\ status' = <<>>
    /\ attempts' = 0

Init ==
    /\ store \in InitStores
    /\ pc = "idle"
    /\ lang = "En"
    /\ settings = DefaultSettings
    /\ existed = FALSE
    /\ cursor = 0
    /\ status = <<>>
    /\ ncycles = 0
    /\ attempts = 0
    /\ saved = NoRecord
    /\ orig = DefaultSettings
    /\ trail = <<>>

\* main: pick_language returns Some(l), then App::new(l)
Start(l) ==
    /\ pc = "idle"
    /\ pc' = "run"
    /\ lang' = l
    /\ LET app == App_new(store, l)
       IN  /\ settings' = app.settings
           /\ existed' = app.existed
           /\ cursor' = app.cursor
           /\ status' = app.status
    /\ attempts' = 0
    /\ UNCHANGED <<store, ncycles, saved, orig, trail>>

\* KeyCode::Up | Char('k')
KeyUp ==
    /\ pc = "run"
    /\ cursor' = cursor_up(cursor)
    /\ UNCHANGED <<store, pc, lang, settings, existed, status, ncycles,
                   attempts, saved, orig, trail>>

\* KeyCode::Down | Char('j')
KeyDown ==
    /\ pc = "run"
    /\ cursor' = cursor_down(cursor)
    /\ UNCHANGED <<store, pc, lang, settings, existed, status, ncycles,
                   attempts, saved, orig, trail>>

\* KeyRight writing the record to the registry after the cycle
KeyRight_autosave ==
    /\ pc = "run"
    /\ ncycles < MaxCycles
    /\ settings' = cycle(settings, cursor, 1)
    /\ ncycles' = ncycles + 1
    /\ store' = write_settings(store, settings', "ok").store
    /\ UNCHANGED <<pc, lang, existed, cursor, status, attempts, saved,
                   orig, trail>>

\* KeyCode::Right | Char('l') => app.cycle(1)
KeyRight ==
    /\ pc = "run"
    /\ ncycles < MaxCycles
    /\ settings' = cycle(settings, cursor, 1)
    /\ ncycles' = ncycles + 1
    /\ UNCHANGED <<store, pc, lang, existed, cursor, status, attempts, saved,
                   orig, trail>>

\* KeyCode::Left | Char('h') => app.cycle(-1)
KeyLeft ==
    /\ pc = "run"
    /\ ncycles < MaxCycles
    /\ settings' = cycle(settings, cursor, -1)
    /\ ncycles' = ncycles + 1
    /\ UNCHANGED <<store, pc, lang, existed, cursor, status, attempts, saved,
                   orig, trail>>

\* KeyCode::Char('s') => app.save()
KeySave ==
    /\ pc = "run"
    /\ UNCHANGED <<pc, lang, settings, existed, cursor, ncycles, orig, trail>>
    /\ \E outcome \in WriteOutcomes :
         LET r == App_save(store, settings, lang, outcome)
         IN  /\ store' = r.store
             /\ status' = r.status
             /\ attempts' = r.calls
             /\ saved' = IF r.ok THEN settings ELSE saved

\* KeyCode::Char('q') | Esc => break: the process ends
KeyQuit ==
    /\ pc = "run"
    /\ pc' = "idle"
    /\ NoApp
    /\ UNCHANGED <<store, ncycles, saved, orig, trail>>

Next ==
    \/ \E l \in Langs : Start(l)
    \/ KeyUp
    \/ KeyDown
    \/ KeyRight
    \/ KeyLeft
    \/ KeySave
    \/ KeyQuit

Spec == Init /\ [][Next]_vars

-----------------------------------------------------------------------------
(* The cycling engine alone: App::cycle applied repeatedly to the field at *)
(* a fixed cursor, from a record in which that field holds any value, in   *)
(* its domain or not. orig and trail record the start and the directions.  *)

\* the values of the options of a descriptor
OptionValues(def) == { def.opts[i][2] : i \in DOMAIN def.opts }

\* starting values for the field of a descriptor: its options, and values
\* outside them (for the float field also values near the option 1.0:
\* inside the tolerance, and exactly Epsilon away, which is outside)
StartValues(def) ==
    CASE def.kind = "SelectI64" -> OptionValues(def) \cup {-1, 0, 7, 144}
      [] def.kind = "SelectF64" ->
            OptionValues(def) \cup
            { 0, FloatUnit + 5, FloatUnit - 5, FloatUnit + Epsilon,
              FloatUnit + 500, 3 * FloatUnit }
      [] def.kind = "Toggle" -> BOOLEAN

\* the default record with the field of the descriptor at idx set to v
StartRecord(idx, v) ==
    LET def == DefAt(idx)
    IN  CASE def.kind = "SelectI64" -> set_i64(DefaultSettings, def.field, v)
          [] def.kind = "SelectF64" -> set_f64(DefaultSettings, def.field, v)
          [] def.kind = "Toggle"    -> set_bool(DefaultSettings, def.field, v)

CycleInit ==
    /\ store = [key |-> FALSE, val |-> NoValue]
    /\ pc = "run"
    /\ lang = "En"
    /\ cursor \in 0 .. Len(setting_defs) - 1
    /\ settings \in { StartRecord(cursor, v) : v \in StartValues(DefAt(cursor)) }
    /\ orig = settings
    /\ trail = <<>>
    /\ existed = FALSE
    /\ status = <<l10n("En").no_registry>>
    /\ ncycles = 0
    /\ attempts = 0
    /\ saved = NoRecord

\* app.cycle(delta)
CycleStep(delta) ==
    /\ Len(trail) < MaxTrail
    /\ settings' = cycle(settings, cursor, delta)
    /\ trail' = Append(trail, delta)
    /\ UNCHANGED <<store, pc, lang, existed, cursor, status, ncycles,
                   attempts, saved, orig>>

CycleRight == CycleStep(1)

CycleLeft == CycleStep(-1)

CycleNext == CycleRight \/ CycleLeft

CycleSpec == CycleInit /\ [][CycleNext]_vars

-----------------------------------------------------------------------------
(* Vocabulary of the properties *)

\* the field of the record each field identifier stands for
BoundField ==
    [ Fps |-> "fps", VSync |-> "enable_vsync", RenderScale |-> "render_scale",
      ResolutionQuality |-> "resolution_quality",
      ShadowQuality |-> "shadow_quality", LightQuality |-> "light_quality",
      CharacterQuality |-> "character_quality",
      EnvDetailQuality |-> "env_detail_quality",
      ReflectionQuality |-> "reflection_quality",
      SfxQuality |-> "sfx_quality", BloomQuality |-> "bloom_quality",
      AaMode |-> "aa_mode", SelfShadow |-> "enable_self_shadow",
      DlssQuality |-> "dlss_quality",
      ParticleTrail |-> "particle_trail_smoothness" ]

Cursors == 0 .. Len(setting_defs) - 1

\* the record field edited at cursor idx, and its value in record s
FieldAt(idx) == BoundField[DefAt(idx).field]
ValueAt(s, idx) == s[FieldAt(idx)]

\* the domain of the field at cursor idx
Domain(idx) ==
    IF DefAt(idx).kind = "Toggle" THEN BOOLEAN ELSE OptionValues(DefAt(idx))

\* the domain lookup of the code: exact for integers, within the tolerance
\* for the float field
LookupHits(s, idx) ==
    IF DefAt(idx).kind = "SelectF64"
    THEN \E v \in Domain(idx) : Abs(v - ValueAt(s, idx)) < Epsilon
    ELSE ValueAt(s, idx) \in Domain(idx)

\* n times the direction d
Repeat(d, n) == [i \in 1 .. n |-> d]

-----------------------------------------------------------------------------
(* Properties of the cycling engine (CycleSpec) *)

\* C3: after any cycle command, in either direction, from any record, the
\* value of the field at the cursor is a member of that field's own domain,
\* also when the value before the command was outside the domain.
C3_CycleLandsInDomain ==
    trail # <<>> => ValueAt(settings, cursor) \in Domain(cursor)

\* an out-of-domain frame rate (144) replaced by an option by the first cycle
C3_Witness ==
    /\ cursor = 0
    /\ Len(trail) = 1
    /\ orig.fps = 144
    /\ settings.fps \in {60, 120}

\* C4, as claimed: for every discrete-integer field, domainSize forward
\* cycles from ANY starting value give the original value back.
C4_ClosureFromAnyValue ==
    ( /\ DefAt(cursor).kind = "SelectI64"
      /\ trail = Repeat(1, Len(DefAt(cursor).opts)) )
    => settings = orig

\* C4, amended: for every discrete-integer field whose starting value is
\* one of its options, domainSize forward cycles leave the record as it was.
C4_ClosureFromDomainValue ==
    ( /\ DefAt(cursor).kind = "SelectI64"
      /\ ValueAt(orig, cursor) \in Domain(cursor)
      /\ trail = Repeat(1, Len(DefAt(cursor).opts)) )
    => settings = orig

\* six forward cycles of the DLSS quality (Off, 1..5) from 2 back to 2
C4_Witness ==
    /\ DefAt(cursor).field = "DlssQuality"
    /\ trail = Repeat(1, 6)
    /\ orig.dlss_quality = 2
    /\ settings = orig

\* C5, as claimed: for every field whose value the domain lookup finds
\* (for the float field: within 0.001 of an option), cycle(+1) then
\* cycle(-1) leaves the record exactly as it was.
C5_InverseWithinTolerance ==
    (trail = <<1, -1>> /\ LookupHits(orig, cursor)) => settings = orig

\* C5, amended: cycle(+1) then cycle(-1) leaves the record exactly as it
\* was when the field's value equals one of its options; a float value
\* within 0.001 of an option but not equal to it ends at that option, with
\* every other field as it was.
C5_InverseOnOptions ==
    trail = <<1, -1>> =>
        /\ ValueAt(orig, cursor) \in Domain(cursor) => settings = orig
        /\ ( /\ LookupHits(orig, cursor)
             /\ ValueAt(orig, cursor) \notin Domain(cursor) )
           => /\ ValueAt(settings, cursor) \in Domain(cursor)
              /\ Abs(ValueAt(settings, cursor) - ValueAt(orig, cursor)) < Epsilon
              /\ \A f \in FieldNames \ {FieldAt(cursor)} : settings[f] = orig[f]

\* the render scale 2.0, the last option: forward wraps to 0.6, back to 2.0
C5_Witness ==
    /\ DefAt(cursor).field = "RenderScale"
    /\ trail = <<1, -1>>
    /\ orig.render_scale = 2 * FloatUnit
    /\ settings = orig

\* C6: on the boolean field a cycle flips the value whatever its
\* direction, so one cycle gives the same record for +1 and for -1, and two
\* cycles in any directions give the original record back.
C6_ToggleIgnoresDirection ==
    DefAt(cursor).kind = "Toggle" =>
        settings = [orig EXCEPT !.enable_vsync =
                       IF Len(trail) % 2 = 1 THEN ~@ ELSE @]

\* vertical sync cycled back and then forward
C6_Witness ==
    /\ DefAt(cursor).kind = "Toggle"
    /\ trail = <<-1, 1>>
    /\ settings = orig
    /\ orig.enable_vsync

-----------------------------------------------------------------------------
(* Properties of a session (Spec) *)

\* the JSON types a field of the given type is read from
RightType(type, j) ==
    \/ type = "i64" /\ j.t = "int"
    \/ type = "f64" /\ j.t \in {"int", "float"}
    \/ type = "bool" /\ j.t = "bool"

\* the members of the stored text named as field f is named externally
StoredMembers(st, f) ==
    { i \in DOMAIN st.val.members : st.val.members[i][1] = ExternalName[f] }

\* the registry holds a value that is, whatever NULs end it, a JSON object
\* with every field of the record once and with the right type
Complete(st) ==
    /\ st.key
    /\ st.val # NoValue
    /\ st.val.kind = "object"
    /\ \A f \in FieldNames :
         /\ Cardinality(StoredMembers(st, f)) = 1
         /\ \A i \in StoredMembers(st, f) :
              RightType(FieldType[f], st.val.members[i][2])

\* the value stored for field f in a complete registry value (an integer
\* stored for the float field is that number as a float)
StoredValue(st, f) ==
    LET j == st.val.members[CHOOSE i \in StoredMembers(st, f) : TRUE][2]
    IN  IF FieldType[f] = "f64" /\ j.t = "int" THEN j.v * FloatUnit ELSE j.v

\* a step that starts a session: pick_language and App::new
Loads == pc = "idle" /\ pc' = "run"

\* C1: load returns the stored record, all 17 fields as stored, with
\* existed = TRUE when the registry value is complete, and otherwise the
\* full default record with existed = FALSE: never a mix of the two.
C1_LoadAllOrNothing ==
    [][ Loads =>
          IF Complete(store)
          THEN existed' /\ \A f \in FieldNames : settings'[f] = StoredValue(store, f)
          ELSE ~existed' /\ settings' = DefaultSettings ]_vars

\* the partial record {"FPS":120} loaded as the defaults
C1_Witness ==
    /\ pc = "run"
    /\ store.val = TextOf(<< <<"FPS", JInt(120)>> >>, 1)
    /\ settings = DefaultSettings
    /\ ~existed
    /\ status = <<l10n(lang).no_registry>>

\* a record that cycling can reach from the default: every editable field
\* holds one of its options and the two fields without descriptor hold
\* their defaults
CycledFromDefault(r) ==
    /\ \A c \in Cursors : ValueAt(r, c) \in Domain(c)
    /\ r.enable_metal_fxsu = DefaultSettings.enable_metal_fxsu
    /\ r.enable_half_res_transparent = DefaultSettings.enable_half_res_transparent

\* C2: a load that follows a successful save of a record reachable from the
\* default by cycling returns that record, equal in every field, with
\* existed = TRUE.
C2_RoundTrip ==
    [][ (Loads /\ saved # NoRecord /\ CycledFromDefault(saved))
          => (existed' /\ settings' = saved) ]_vars

\* a session started (nothing saved in it yet) on what an earlier session
\* saved after cycling away from the default
C2_Witness ==
    /\ pc = "run"
    /\ attempts = 0
    /\ saved # NoRecord
    /\ saved # DefaultSettings
    /\ CycledFromDefault(saved)
    /\ settings = saved
    /\ existed

\* C7: a save command calls write_settings once and leaves the record and
\* the cursor alone; either the registry then holds the serialization of
\* the record, NUL-terminated, and the status is the saved text, or the
\* stored value is as before and the status is the failure text followed by
\* the error.
C7_SaveReportsOutcome ==
    [][ KeySave =>
          /\ attempts' = 1
          /\ settings' = settings
          /\ cursor' = cursor
          /\ \/ /\ status' = <<l10n(lang).saved>>
                /\ store' = [key |-> TRUE, val |-> push_nul(to_string(settings))]
             \/ /\ \E o \in WriteOutcomes \ {"ok"} :
                     status' = <<l10n(lang).save_failed, ": ", ErrorText(o)>>
                /\ store'.val = store.val ]_vars

\* a failed value write: the path was created, no value is stored, and the
\* status is the failure text
C7_Witness ==
    /\ pc = "run"
    /\ attempts = 1
    /\ status = <<l10n(lang).save_failed, ": ", ErrorText("set_raw_value")>>
    /\ store = [key |-> TRUE, val |-> NoValue]
    /\ saved = NoRecord

\* C8: the cursor is always an index of the registry (15 descriptors); Up
\* at the first row and Down at the last leave it, elsewhere it moves by one.
C8_CursorClamped ==
    /\ [](cursor \in 0 .. 14 /\ Len(setting_defs) = 15)
    /\ [][ KeyUp => cursor' = IF cursor = 0 THEN 0 ELSE cursor - 1 ]_vars
    /\ [][ KeyDown => cursor' = IF cursor = 14 THEN 14 ELSE cursor + 1 ]_vars

\* the cursor on the last row
C8_Witness == pc = "run" /\ cursor = 14

\* C9: the registry changes only in a save command: not in a cursor move,
\* a cycle, the load at the start of a session or the end of the session.
C9_StoreChangesOnlyOnSave == [][ store' # store => KeySave ]_vars

\* a session ended after a cycle and without a successful save: the
\* registry holds what it held at the start
C9_Witness ==
    /\ pc = "idle"
    /\ ncycles > 0
    /\ saved = NoRecord
    /\ store = [key |-> TRUE,
                val |-> TextOf([WithMember(5, JInt(9)) EXCEPT
                                  ![3] = <<@[1], JFloat(FloatUnit + 500)>>], 1)]

\* C10: a complete stored record is loaded with existed = TRUE and with
\* every value that is outside its field's domain unchanged, and in a
\* running session a field changes only in a cycle command with the cursor
\* on that field.
C10_NoClampOnLoad ==
    /\ [][ (Loads /\ Complete(store)) =>
             /\ existed'
             /\ \A c \in Cursors :
                  StoredValue(store, FieldAt(c)) \notin Domain(c)
                     => ValueAt(settings', c) = StoredValue(store, FieldAt(c)) ]_vars
    /\ [][ (pc = "run" /\ pc' = "run") =>
             \A f \in FieldNames :
                settings'[f] # settings[f]
                   => ((KeyRight \/ KeyLeft) /\ FieldAt(cursor) = f) ]_vars

\* the stored frame rate 144 still in the record after a cycle of another
\* field (vertical sync)
C10_Witness ==
    /\ pc = "run"
    /\ existed
    /\ settings.fps = 144
    /\ settings.enable_vsync # StoredA.enable_vsync
    /\ ncycles > 0

\* the two fields of the record that no descriptor edits
FlagFields == FieldNames \ { FieldAt(c) : c \in Cursors }

\* C11: the upscaler flag and the half-res-transparency flag are edited by
\* no descriptor: in a running session no cursor move, cycle or save
\* changes them, so they keep the values the load returned, and every
\* successful save stores those values.
C11_FlagsPreserved ==
    /\ [](FlagFields = {"enable_metal_fxsu", "enable_half_res_transparent"})
    /\ [][ (pc = "run" /\ pc' = "run") =>
             \A f \in FlagFields : settings'[f] = settings[f] ]_vars
    /\ [][ (KeySave /\ status' = <<l10n(lang).saved>>) =>
             /\ Complete(store')
             /\ \A f \in FlagFields : StoredValue(store', f) = settings[f] ]_vars

\* both flags loaded as TRUE, still TRUE after a cycle, and stored by a
\* successful save
C11_Witness ==
    /\ pc = "run"
    /\ ncycles > 0
    /\ settings.enable_metal_fxsu
    /\ settings.enable_half_res_transparent
    /\ status = <<l10n(lang).saved>>
    /\ Complete(store)
    /\ StoredValue(store, "enable_metal_fxsu")
    /\ StoredValue(store, "enable_half_res_transparent")

-----------------------------------------------------------------------------
(* The position rule of the cycling engine (CycleSpec) *)

\* the value of the option at 0-based index k of the field at cursor idx
OptionAt(idx, k) == DefAt(idx).opts[k + 1][2]

DomainSize(idx) == Len(DefAt(idx).opts)

\* the remainder of a by n that is never negative, for a in -1 .. n
NonNegMod(a, n) ==
    CHOOSE r \in 0 .. n - 1 : \E q \in -1 .. 1 : a = q * n + r

\* the 0-based index of the first option for which Matches holds, or 0
FirstIndex(idx, Matches(_)) ==
    LET hits == { k \in 0 .. DomainSize(idx) - 1 : Matches(OptionAt(idx, k)) }
    IN  IF hits = {} THEN 0 ELSE CHOOSE k \in hits : \A j \in hits : k <= j

\* pos: the index of the first option equal to the current value, with the
\* equality of the domain's lookup (exact on the integer fields, within
\* 0.001 on the float field), or 0 when no option matches
LookupPos(s, idx) ==
    LET Same(v) == v = ValueAt(s, idx)
        Near(v) == Abs(v - ValueAt(s, idx)) < Epsilon
    IN  IF DefAt(idx).kind = "SelectF64" THEN FirstIndex(idx, Near)
        ELSE FirstIndex(idx, Same)

\* a cycle on a discrete field writes the option at (pos + direction) mod n
WritesByPosition ==
    DefAt(cursor).kind # "Toggle" =>
        ValueAt(settings', cursor) =
           OptionAt(cursor, NonNegMod(LookupPos(settings, cursor) + trail'[Len(trail')],
                                     DomainSize(cursor)))

\* the cases spelled out: the two wraps, the out-of-domain start in both
\* directions, and the frame rate 60 -> 120 -> 30
WorkedCases ==
    /\ (DefAt(cursor).kind # "Toggle" /\ Len(trail) = 1) =>
          LET n     == DomainSize(cursor)
              start == ValueAt(orig, cursor)
              now   == ValueAt(settings, cursor)
              found == LookupHits(orig, cursor)
          IN  /\ (start = OptionAt(cursor, 0) /\ trail = <<-1>>)
                    => now = OptionAt(cursor, n - 1)
              /\ (start = OptionAt(cursor, n - 1) /\ trail = <<1>>)
                    => now = OptionAt(cursor, 0)
              /\ (~found /\ trail = <<1>>) => now = OptionAt(cursor, 1)
              /\ (~found /\ trail = <<-1>>) => now = OptionAt(cursor, n - 1)
    /\ (DefAt(cursor).field = "Fps" /\ orig.fps = 60) =>
          /\ trail = <<1>> => settings.fps = 120
          /\ trail = <<1, 1>> => settings.fps = 30

\* C12: on a discrete field with n options, cycle(direction) writes
\* opts[(pos + direction) mod n] with a non-negative modulo, where pos is the
\* index of the first option equal to the current value (by the lookup's
\* equality) or 0 when no option matches; hence first -1 -> last,
\* last +1 -> first, out-of-domain +1 -> index 1 and -1 -> last, and the
\* frame rate goes 60 -> +1 -> 120 -> +1 -> 30.
C12_PositionRule ==
    /\ [][WritesByPosition]_vars
    /\ []WorkedCases

\* the frame rate cycled forward twice from 60: 120, then the wrap to 30
C12_Witness ==
    /\ DefAt(cursor).field = "Fps"
    /\ orig.fps = 60
    /\ trail = <<1, 1>>
    /\ settings.fps = 30

-----------------------------------------------------------------------------
(* The frame of a cycle command *)

\* the descriptor at cursor idx is served by the accessor pair of its own
\* kind: the setter writes the bound field and nothing else, and the getter
\* reads back what was written
OwnAccessors(s, idx) ==
    LET def     == DefAt(idx)
        Put(v)  == CASE def.kind = "SelectI64" -> set_i64(s, def.field, v)
                     [] def.kind = "SelectF64" -> set_f64(s, def.field, v)
                     [] def.kind = "Toggle"    -> set_bool(s, def.field, v)
        Get(r)  == CASE def.kind = "SelectI64" -> get_i64(r, def.field)
                     [] def.kind = "SelectF64" -> get_f64(r, def.field)
                     [] def.kind = "Toggle"    -> get_bool(r, def.field)
    IN  \A v \in Domain(idx) :
           /\ Put(v) = [s EXCEPT ![FieldAt(idx)] = v]
           /\ Get(Put(v)) = v

\* the fields in which records r and s differ
Differ(r, s) == { f \in FieldNames : r[f] # s[f] }

\* C13: a cycle command changes only the record field bound to the
\* descriptor at the cursor and leaves every other field, the cursor and the
\* status message alone; every descriptor is served by the accessor pair of
\* its own kind, and no two descriptors are bound to the same field.
C13_CycleFrame ==
    /\ [][ (KeyRight \/ KeyLeft) =>
             /\ Differ(settings', settings) \subseteq {FieldAt(cursor)}
             /\ cursor' = cursor
             /\ status' = status ]_vars
    /\ [](pc = "run" => \A c \in Cursors : OwnAccessors(settings, c))
    /\ [](\A c, d \in Cursors : FieldAt(c) = FieldAt(d) => c = d)

\* a cycle below the first row after a successful save: the record differs
\* from the saved one in the cursor's field only, and the "saved" message
\* is still shown
C13_Witness ==
    /\ pc = "run"
    /\ ncycles > 0
    /\ cursor > 0
    /\ status = <<l10n(lang).saved>>
    /\ saved # NoRecord
    /\ Differ(settings, saved) = {FieldAt(cursor)}

====
